---- MODULE Spec2Model ----
(***************************************************************************)
(* A model of the two notebooks of battery_life_prediction_with_neural_    *)
(* networks:                                                               *)
(*   cnn_life_predict.ipynb   get_data (cell loop, three-way split,        *)
(*                            labels, sample weights)                      *)
(*   exercise-1_keras.ipynb   auto-MPG preprocessing, build_model and its  *)
(*                            parameter count, the two fits of Part 1 and  *)
(*                            Part 2 with the EarlyStopping callback       *)
(* Each part of the notebooks has its own specification over the same      *)
(* variables; the variables of the other parts stay at their idle values.  *)
(***************************************************************************)
EXTENDS Integers, Sequences, FiniteSets, TLC

VARIABLES
  \* ---- get_data (cnn_life_predict.ipynb) ----
  gpc,        \* position inside get_data
  cells,      \* f['cell data']: the cells of the HDF5 file, in key order
  logy,       \* get_data's logy argument
  batchV,     \* batch array built by the cell loop
  cycfailV,   \* failure cycle array built by the cell loop
  top_nval,   \* the indices argsort(irnd)[-nval:] selects
  iD,         \* the three boolean index masks 'trn', 'val', 'tst'
  y,          \* labels per set
  n,          \* number of cells per set
  weights,    \* sample weight of every training cell
  runs,       \* how many times get_data has been executed on this file
  prevID,     \* the masks the previous execution returned
  Xin,            \* the feature array: one grid per cell
  X,              \* X[dset]: the feature grids of the cells of dset
  nfeat,          \* the number of features of a cell
  \* ---- model fitting (both notebooks) ----
  nb,             \* the notebook whose cells run: "exercise" or "cnn"
  fpc,            \* the cell of the fitting section that runs next
  model,          \* the object bound to the name model
  epochs_run,     \* len(history.epoch) of the fit under way or just returned
  es,             \* the fields of the EarlyStopping callback
  monitored,      \* what history.history['val_loss'] holds for the monitored fit
  overfit_score,  \* held-out error of the Part 1 model (0: not computed)
  earlystop_score, \* held-out error of the Part 2 model (0: not computed)
  \* ---- model construction (exercise-1_keras.ipynb) ----
  bpc,            \* position in the construction of a model
  builder,        \* the cell that constructs: "first", "part1" or "build_model"
  n_inputs,       \* len(X_cols)
  n_layers,       \* build_model's n_layers argument
  hidden_size,    \* build_model's hidden_size argument
  i_layer,        \* loop variable i of build_model
  layersL,        \* the layers of the Sequential model, in order
  n_params,       \* what model.count_params() returned (0: not called)
  \* ---- auto-MPG preprocessing (exercise-1_keras.ipynb) ----
  ppc,            \* the preprocessing cell that runs next
  csv,            \* the lines of the downloaded file, split into fields
  data,           \* the rows of the DataFrame bound to the name data
  columns,        \* data.columns
  new_origin,     \* the DataFrame bound to the name new_origin
  X_cols,         \* the input columns
  \* ---- parity plot and error metrics (cnn_life_predict.ipynb) ----
  epc,            \* the evaluation cell that runs: "parity" or "metrics"
  dsetI,          \* position of its loop in dsetL
  yT,             \* parity plot: the experimental cycle lives per set
  yM,             \* error metrics: the cycle lives the errors are relative to
  raised,         \* the evaluation cells that raised an error
  \* ---- the data loaders and the files they fetch (both notebooks) ----
  remote,         \* the cells of the HDF5 file behind remote_url
  local,          \* the cells of the local file fname (<< >>: no such file)
  cached,         \* whether auto-mpg.data is in the framework's cache
  fetches,        \* network fetches issued so far, per loader
  attempts,       \* network fetches issued by the loader call under way
  failed,         \* whether a fetch of the loader call under way has failed
  refetch,        \* the loaders that fetched a file they had locally
  loads,          \* how many times the get_file cell has been executed
  \* ---- the CNN model (cnn_life_predict.ipynb) ----
  cpc,            \* the statement of the model cell that runs next
  tensors,        \* the tensors created so far: the layer and its input
  x_tensor,       \* the tensor bound to the name x
  outputs,        \* the tensor bound to the name outputs
  cnn_layers      \* model.layers of the CNN model, without the input layer

gdVars == <<gpc, cells, logy, batchV, cycfailV, top_nval, iD, y, n, weights,
            runs, prevID, Xin, X, nfeat>>

fitVars == <<nb, fpc, model, epochs_run, es, monitored, overfit_score,
             earlystop_score>>

buildVars == <<bpc, builder, n_inputs, n_layers, hidden_size, i_layer, layersL,
               n_params>>

prepVars == <<ppc, csv, data, columns, new_origin, X_cols>>

evalVars == <<epc, dsetI, yT, yM, raised>>

fetchVars == <<remote, local, cached, fetches, attempts, failed, refetch,
               loads>>

cnnVars == <<cpc, tensors, x_tensor, outputs, cnn_layers>>

vars == <<gdVars, fitVars, buildVars, prepVars, evalVars, fetchVars, cnnVars>>

\* the variables get_data leaves alone
notGd ==
  <<fitVars, buildVars, prepVars, evalVars, fetchVars, cnnVars>>

\* the variables the fitting section leaves alone
notFit ==
  <<gdVars, buildVars, prepVars, evalVars, fetchVars, cnnVars>>

\* the variables the construction of a model leaves alone
notBuild ==
  <<gdVars, fitVars, prepVars, evalVars, fetchVars, cnnVars>>

\* the variables the preprocessing leaves alone
notPrep ==
  <<gdVars, fitVars, buildVars, evalVars, fetchVars, cnnVars>>

\* the variables the model cell of the CNN notebook leaves alone
notCnn == <<gdVars, fitVars, buildVars, prepVars, evalVars, fetchVars>>

\* the variables the evaluation cells leave alone
notEval ==
  <<gdVars, fitVars, buildVars, prepVars, fetchVars, cnnVars>>

-----------------------------------------------------------------------------
(* Bounds of the model *)

\* largest number of cells in the HDF5 file
MaxCells == 6

\* how many times get_data is executed on the same file
MaxRuns == 2

\* largest number of cells in a file get_data is executed on repeatedly
MaxRerunCells == 5

\* validation losses are 0..MaxLoss
MaxLoss == 10

\* held-out errors are 1..MaxScore
MaxScore == 2

\* largest n_layers build_model is called with
MaxLayers == 3

\* largest number of lines in the downloaded file
MaxRows == 3

\* largest number of cells in a file that is fetched
MaxFetchCells == 2

\* how many times the get_file cell is executed
MaxLoads == 3

\* the most evaluated cycles and evaluated voltages of a small modelled file
MaxCycles == 3

MaxVolts == 2

\* the most cells of a file whose feature grids are modelled
MaxGridCells == 2

-----------------------------------------------------------------------------
(* Helpers *)

\* np.sum of a boolean mask
CountTrue(mask) == Cardinality({i \in DOMAIN mask : mask[i]})

\* a[mask]: the entries of a selected by a boolean mask, in index order
RECURSIVE MaskSelect(_, _)
MaskSelect(a, mask) ==
  IF a = << >> THEN << >>
  ELSE LET rest == MaskSelect(Tail(a), Tail(mask))
       IN  IF Head(mask) THEN <<Head(a)>> \o rest ELSE rest

\* the k-element subsets of a set of integers
RECURSIVE KSubsets(_, _)
KSubsets(S, k) ==
  IF k = 0 THEN {{}}
  ELSE UNION {{{x} \cup T : T \in KSubsets({z \in S : z > x}, k - 1)} : x \in S}

-----------------------------------------------------------------------------
(* get_data: the cell loop *)

\* The batch markers a cell name can contain.  A name is modelled by the set
\* of markers that occur in it ('Batch1' in aname is marker membership).
BatchMarkers == {"Batch1", "Batch2", "Batch3"}

\* the names the model draws cells from: one marker, or none
CellNames == {{}} \cup {{m} : m \in BatchMarkers}

\* cycles to 90 pct capacity the model draws from (powers of ten, so that
\* log10 is exact)
CycValues == {100, 1000, 10000}

\* if 'Batch1' in aname ... elif 'Batch2' ... elif 'Batch3' ... else 0
BatchOf(aname) ==
  IF "Batch1" \in aname THEN 1
  ELSE IF "Batch2" \in aname THEN 2
  ELSE IF "Batch3" \in aname THEN 3
  ELSE 0

\* np.log10 on the label values of the model
Log10(c) ==
  CASE c = 1 -> 0 [] c = 10 -> 1 [] c = 100 -> 2 [] c = 1000 -> 3
    [] c = 10000 -> 4

\* one cell of f['cell data']: its key, its 'cycles to 90pct capacity' and
\* its 'discharging voltage vs capacity', one row per evaluated cycle and one
\* column per evaluated voltage
Cell(aname, cycfail, VvC) == [name |-> aname, cycfail |-> cycfail, VvC |-> VvC]

\* the curves of a cell of R evaluated cycles and V evaluated voltages that
\* loses fade * v of its capacity at the v-th voltage from each evaluated
\* cycle to the next
Curves(R, V, fade) ==
  [r \in 1..R |-> [v \in 1..V |-> 100 * v - fade * (r - 1) * v]]

\* two evaluated cycles, one evaluated voltage, no fade
FlatCurves == Curves(2, 1, 0)

\* The files of 1..k cells whose names range over CellNames, every cell with
\* the same cycle life: the inputs of the three-way split.
NamedFiles(k) ==
  UNION {[1..j -> {Cell(a, 1000, FlatCurves) : a \in CellNames}] : j \in 1..k}

\* The files of 1..k Batch1 cells whose cycle lives range over CycValues: the
\* inputs of the labels and the sample weights.
LabelledFiles(k) ==
  UNION {[1..j -> {Cell({"Batch1"}, c, FlatCurves) : c \in CycValues}] : j \in 1..k}

\* the fades the model draws from
Fades == {0, 1, 2}

\* the evaluated cycles and evaluated voltages of the dataset
DatasetShape == <<10, 20>>

\* the numbers of evaluated cycles and voltages of the modelled files
Shapes ==
  {<<R, V>> : R \in 2..MaxCycles, V \in 1..MaxVolts} \cup {DatasetShape}

\* The files of 1..k cells of batch 1 or 3 whose curves have one shape and
\* fade differently, and whose cycle lives range over CycValues: the inputs
\* of the feature grids.
GridFiles(k) ==
  UNION {[1..j -> {Cell({b}, c, Curves(sh[1], sh[2], fd)) :
                     b \in {"Batch1", "Batch3"}, c \in CycValues,
                     fd \in Fades}] :
           j \in 1..k, sh \in Shapes}

ncell == Len(cells)

\* a variant of Farr that takes every row less the row before it
FarrPrevious(VvC) ==
  [k \in 1..(Len(VvC) - 1) |->
     [v \in 1..Len(VvC[1]) |-> VvC[k + 1][v] - VvC[k][v]]]

\* farr = VvC[1:, :] - VvC[0, :]: every row after the first, less the first
Farr(VvC) ==
  [k \in 1..(Len(VvC) - 1) |->
     [v \in 1..Len(VvC[1]) |-> VvC[k + 1][v] - VvC[1][v]]]

\* farr.size
Size(farr) == Len(farr) * Len(farr[1])

\* an array as its shape and its entries
NoArray == [shape |-> <<0>>, data |-> << >>]

\* np.stack(Xin) of a list of grids of one shape
Stack(L) == [shape |-> <<Len(L), Len(L[1]), Len(L[1][1])>>, data |-> L]

\* Xin[mask, ..., None]: the grids of the cells the mask selects, with a new
\* last axis of length one
TakeCells(A, mask) ==
  LET sel == MaskSelect(A.data, mask)
  IN  [shape |-> <<CountTrue(mask), A.shape[2], A.shape[3], 1>>,
       data  |-> [i \in DOMAIN sel |->
                    [k \in DOMAIN sel[i] |->
                       [v \in DOMAIN sel[i][k] |-> <<sel[i][k][v]>>]]]]

\* for aname in anameL: cycfailV = np.append(...); Xin += [farr];
\* batchV = np.append(...); then nfeat = farr.size and Xin = np.stack(Xin)
CellLoop ==
  /\ gpc = "loop"
  /\ cycfailV' = [i \in 1..ncell |-> cells[i].cycfail]
  /\ batchV' = [i \in 1..ncell |-> BatchOf(cells[i].name)]
  /\ Xin' = Stack([i \in 1..ncell |-> Farr(cells[i].VvC)])
  /\ nfeat' = Size(Farr(cells[ncell].VvC))
  /\ gpc' = "tst"
  /\ UNCHANGED <<cells, logy, top_nval, iD, y, n, weights, runs, prevID, X>>
  /\ UNCHANGED notGd

-----------------------------------------------------------------------------
(* get_data: the train, validation and test sets *)

\* np.invert on a boolean mask
Invert(mask) == [i \in DOMAIN mask |-> ~mask[i]]

\* the product of two boolean masks
MaskAnd(a, b) == [i \in DOMAIN a |-> a[i] /\ b[i]]

\* iD['tst'] = batchV == 3
TstMask(bV) == [i \in DOMAIN bV |-> bV[i] = 3]

\* nval = np.int16(0.2*nrst): the integer part of nrst/5
Nval(nrst) == nrst \div 5

\* One outcome of np.random.rand(ncell) is modelled per cell by whether the
\* draw is exactly 0.0 (0) or positive (1); the order among positive draws is
\* left to TopNval, which returns every set a sort of distinct positive
\* values (and any order among equal values) can select.
DrawValues == {0, 1}

\* irnd[iD['tst']] = 0
MaskDraws(irnd, tst) == [i \in DOMAIN irnd |-> IF tst[i] THEN 0 ELSE irnd[i]]

\* a variant of TopNval that selects the cells whose draw exceeds a threshold
\* instead of the nval largest draws
TopNvalThreshold(irnd, nval) == {{i \in DOMAIN irnd : irnd[i] > 0}}

\* np.argsort(irnd)[-nval:] as a set of indices.  The slice [-0:] is the
\* whole array.  For nval > 0 the slice holds the nval last indices of an
\* ascending sort: every index with a larger value than the nval-th largest,
\* and as many of the indices that tie with it as are needed.
TopNval(irnd, nval) ==
  LET idx == DOMAIN irnd
      above(v) == {i \in idx : irnd[i] > v}
      level == CHOOSE v \in {irnd[i] : i \in idx} :
                 /\ Cardinality(above(v)) < nval
                 /\ Cardinality(above(v)) + Cardinality({i \in idx : irnd[i] = v}) >= nval
  IN  IF nval = 0 THEN {idx}
      ELSE {above(level) \cup T :
              T \in KSubsets({i \in idx : irnd[i] = level},
                             nval - Cardinality(above(level)))}

\* iD['val'] = np.zeros((ncell,), dtype='bool'); iD['val'][top_nval] = True
ValMask(nc, top) == [i \in 1..nc |-> i \in top]

\* iD['trn'] = np.invert(iD['val'])*np.invert(iD['tst'])
TrnMask(val, tst) == MaskAnd(Invert(val), Invert(tst))

NoMasks == [trn |-> << >>, val |-> << >>, tst |-> << >>]

\* batch 3 is reserved for test
TestSet ==
  /\ gpc = "tst"
  /\ iD' = [iD EXCEPT !.tst = TstMask(batchV)]
  /\ gpc' = "val"
  /\ UNCHANGED <<cells, logy, batchV, cycfailV, top_nval, y, n, weights, runs,
                 prevID>>
  /\ UNCHANGED <<Xin, X, nfeat>>
  /\ UNCHANGED notGd

ntst == CountTrue(iD.tst)

nrst == ncell - ntst

\* nval; irnd = np.random.rand(ncell); irnd[iD['tst']] = 0; top_nval
DrawVal ==
  /\ gpc = "val"
  /\ top_nval' \in UNION {TopNval(MaskDraws(irnd, iD.tst), Nval(nrst)) :
                            irnd \in [1..ncell -> DrawValues]}
  /\ gpc' = "masks"
  /\ UNCHANGED <<cells, logy, batchV, cycfailV, iD, y, n, weights, runs, prevID>>
  /\ UNCHANGED <<Xin, X, nfeat>>
  /\ UNCHANGED notGd

\* iD['val'] and iD['trn']
ValTrnMasks ==
  /\ gpc = "masks"
  /\ LET val == ValMask(ncell, top_nval)
     IN  iD' = [iD EXCEPT !.val = val, !.trn = TrnMask(val, iD.tst)]
  /\ gpc' = "xy"
  /\ UNCHANGED <<cells, logy, batchV, cycfailV, top_nval, y, n, weights, runs,
                 prevID>>
  /\ UNCHANGED <<Xin, X, nfeat>>
  /\ UNCHANGED notGd

-----------------------------------------------------------------------------
(* get_data: labels and counts per set *)

dsetL == {"trn", "val", "tst"}

\* y[dset] = np.log10(cycfailV[iD[dset]]) if logy else cycfailV[iD[dset]]
Labels(cyc, mask, lg) ==
  LET sel == MaskSelect(cyc, mask)
  IN  [i \in DOMAIN sel |-> IF lg THEN Log10(sel[i]) ELSE sel[i]]

\* for dset in dsetL: X[dset] = ...; y[dset] = ...; n[dset] = np.sum(iD[dset])
BuildXY ==
  /\ gpc = "xy"
  /\ y' = [d \in dsetL |-> Labels(cycfailV, iD[d], logy)]
  /\ n' = [d \in dsetL |-> CountTrue(iD[d])]
  /\ X' = [d \in dsetL |-> TakeCells(Xin, iD[d])]
  /\ gpc' = "weights"
  /\ UNCHANGED <<cells, logy, batchV, cycfailV, top_nval, iD, weights, runs,
                 prevID, Xin, nfeat>>
  /\ UNCHANGED notGd

-----------------------------------------------------------------------------
(* get_data: the sample weights *)

\* Floating-point values of the weights section are modelled by exact
\* fractions num/den in lowest terms; x/0 with x > 0 is inf and 0/0 is nan,
\* as numpy's division gives them.
RECURSIVE GCD(_, _)
GCD(a, b) == IF b = 0 THEN a ELSE GCD(b, a % b)

Rat(num, den) ==
  IF num = 0 /\ den = 0 THEN [num |-> 0, den |-> 0]
  ELSE LET g == GCD(num, den) IN [num |-> num \div g, den |-> den \div g]

RatDiv(a, b) == Rat(a.num * b.den, a.den * b.num)

IsNan(r) == r.num = 0 /\ r.den = 0

IsInf(r) == r.num > 0 /\ r.den = 0

IsFinite(r) == r.den > 0

\* a <= b for two finite fractions
RatLeq(a, b) == a.num * b.den <= b.num * a.den

\* bins = 4
bins == 4

SeqMin(a) == CHOOSE v \in {a[i] : i \in DOMAIN a} : \A j \in DOMAIN a : v <= a[j]

SeqMax(a) == CHOOSE v \in {a[i] : i \in DOMAIN a} : \A j \in DOMAIN a : v >= a[j]

\* The range np.histogram bins over, as twice its two ends: (0, 1) for an
\* empty array, (min - 0.5, max + 0.5) when all values are equal, and
\* (min, max) otherwise.
HistRange2(a) ==
  IF a = << >> THEN [lo |-> 0, hi |-> 2]
  ELSE IF SeqMin(a) = SeqMax(a)
       THEN [lo |-> 2 * SeqMin(a) - 1, hi |-> 2 * SeqMax(a) + 1]
       ELSE [lo |-> 2 * SeqMin(a), hi |-> 2 * SeqMax(a)]

\* bin_edges: the bins+1 evenly spaced edges, in units of 1/(2*bins)
BinEdges(a) ==
  LET r == HistRange2(a)
  IN  [k \in 0..bins |-> bins * r.lo + k * (r.hi - r.lo)]

\* a label in the units of BinEdges
InEdgeUnits(v) == 2 * bins * v

\* The bin np.histogram counts a value in: bin k covers
\* bin_edges[k] <= v < bin_edges[k+1], and the last bin includes its upper
\* edge.
HistBin(a, v) ==
  LET e == BinEdges(a)
  IN  CHOOSE k \in 0..(bins - 1) :
        /\ e[k] <= InEdgeUnits(v)
        /\ \/ InEdgeUnits(v) < e[k + 1]
           \/ k = bins - 1 /\ InEdgeUnits(v) <= e[k + 1]

HistCount(a, k) == Cardinality({i \in DOMAIN a : HistBin(a, a[i]) = k})

\* hist with density=True: count / (number of values * bin width), where the
\* bin width is (hi - lo)/bins, that is (r.hi - r.lo)/(2*bins)
Hist(a) ==
  LET r == HistRange2(a)
  IN  [k \in 0..(bins - 1) |->
         Rat(2 * bins * HistCount(a, k), Len(a) * (r.hi - r.lo))]

\* np.mean(hist): the densities share one denominator before reduction
HistMean(a) ==
  LET r == HistRange2(a)
  IN  Rat(2 * bins * Len(a), bins * Len(a) * (r.hi - r.lo))

\* invhist = np.mean(hist)/hist
InvHist(a) == [k \in 0..(bins - 1) |-> RatDiv(HistMean(a), Hist(a)[k])]

\* sel of the loop over the bins: (lwr <= y)*(y <= upr) for ii == 0 and
\* (lwr < y)*(y <= upr) otherwise
Sel(a, ii, v) ==
  LET lwr == BinEdges(a)[ii]
      upr == BinEdges(a)[ii + 1]
  IN  IF ii = 0 THEN lwr <= InEdgeUnits(v) /\ InEdgeUnits(v) <= upr
      ELSE lwr < InEdgeUnits(v) /\ InEdgeUnits(v) <= upr

\* weights after the iterations 0..ii-1 of the loop over the bins, starting
\* from np.ones(y['trn'].shape)
RECURSIVE WeightsLoop(_, _)
WeightsLoop(a, ii) ==
  IF ii = 0 THEN [i \in DOMAIN a |-> Rat(1, 1)]
  ELSE LET w == WeightsLoop(a, ii - 1)
       IN  [i \in DOMAIN a |->
              IF Sel(a, ii - 1, a[i]) THEN InvHist(a)[ii - 1] ELSE w[i]]

\* hist, bin_edges, invhist and the loop that fills weights
SampleWeights ==
  /\ gpc = "weights"
  /\ weights' = WeightsLoop(y["trn"], bins)
  /\ gpc' = "return"
  /\ UNCHANGED <<cells, logy, batchV, cycfailV, top_nval, iD, y, n, runs, prevID>>
  /\ UNCHANGED <<Xin, X, nfeat>>
  /\ UNCHANGED notGd

\* return X, y, n, iD, weights, cyceval, veval
Return ==
  /\ gpc = "return"
  /\ gpc' = "done"
  /\ UNCHANGED <<cells, logy, batchV, cycfailV, top_nval, iD, y, n, weights,
                 runs, prevID>>
  /\ UNCHANGED <<Xin, X, nfeat>>
  /\ UNCHANGED notGd

\* get_data is executed again on the same file; the locals start afresh and
\* prevID keeps the masks of the execution that just returned
Rerun ==
  /\ gpc = "done"
  /\ runs < MaxRuns
  /\ runs' = runs + 1
  /\ prevID' = iD
  /\ gpc' = "loop"
  /\ batchV' = << >>
  /\ cycfailV' = << >>
  /\ top_nval' = {}
  /\ iD' = NoMasks
  /\ y' = [d \in dsetL |-> << >>]
  /\ n' = [d \in dsetL |-> 0]
  /\ weights' = << >>
  /\ Xin' = NoArray
  /\ X' = [d \in dsetL |-> NoArray]
  /\ nfeat' = 0
  /\ UNCHANGED <<cells, logy>>
  /\ UNCHANGED notGd

-----------------------------------------------------------------------------
(* Model fitting: the fit calls of the two notebooks and the EarlyStopping   *)
(* callback they pass.  The training loop and the callback are the           *)
(* framework's; the notebooks set their arguments.                           *)

\* fit(..., epochs=...) of the three fit calls: Part 1 and Part 2 of the
\* exercise notebook, and the CNN notebook (epochs = 200)
Epochs(f) ==
  CASE f = "overfit" -> 1024
    [] f = "earlystop" -> 256
    [] f = "cnn" -> 200

\* whether the fit call passes callbacks
HasCallback(f) == f \in {"earlystop", "cnn"}

\* the callback constructed without patience: the framework's default
PatienceDefault(f) == 0

\* EarlyStopping(..., patience=...)
Patience(f) ==
  CASE f = "earlystop" -> 25
    [] f = "cnn" -> 50

\* the callback constructed without restore_best_weights: the framework's
\* default
RestoreDefault(f) == FALSE

\* EarlyStopping(..., restore_best_weights=True)
RestoreBestWeights(f) == f \in {"earlystop", "cnn"}

\* the fit call of the cell that runs
CurFit ==
  IF nb = "cnn" THEN "cnn" ELSE IF fpc = "fit1" THEN "overfit" ELSE "earlystop"

\* the validation losses an epoch can end with
Losses == 0..MaxLoss

\* np.Inf, the callback's initial best
Inf == MaxLoss + 1

\* the held-out errors mean_absolute_error can return
Scores == 1..MaxScore

\* The weights of a model are named by the epoch of the fit that produced
\* them: model.get_weights() after epoch e is e, and 0 names the initial
\* weights of a newly constructed model.
InitialWeights == 0

\* best_weights = None
NoneWeights == -1

\* a newly constructed and compiled model; k counts the models constructed
\* so far, and iterations is the state of its optimizer: the number of epochs
\* the optimizer has trained it for
NewModel(k) ==
  [id |-> k, weights |-> InitialWeights, stop_training |-> FALSE,
   iterations |-> 0]

NoModel ==
  [id |-> 0, weights |-> InitialWeights, stop_training |-> FALSE,
   iterations |-> 0]

\* EarlyStopping.on_train_begin
OnTrainBegin ==
  [wait |-> 0, best |-> Inf, best_weights |-> NoneWeights, stopped_epoch |-> 0]

\* the summary of an empty history.history['val_loss']
NoHistory == [min |-> Inf, argmin |-> 0, stale |-> 0, last_is_min |-> FALSE]

\* history.history['val_loss'] after the loss cur of an epoch is appended: its
\* lowest value, the first epoch that reached it, the number of epochs since,
\* and whether its last value is its lowest
Record(h, epoch, cur) ==
  IF cur < h.min
  THEN [min |-> cur, argmin |-> epoch, stale |-> 0, last_is_min |-> TRUE]
  ELSE [h EXCEPT !.stale = h.stale + 1, !.last_is_min = (cur = h.min)]

\* EarlyStopping.on_epoch_end for fit f, after the epoch with index epoch
\* (from 0) left the model with weights w and logs['val_loss'] = current: the
\* callback's fields, the weights of the model and model.stop_training
\* afterwards
OnEpochEnd(f, cb, epoch, w, current) ==
  IF current < cb.best
  THEN [es |-> [cb EXCEPT !.best = current, !.wait = 0,
                          !.best_weights =
                             IF RestoreBestWeights(f) THEN w ELSE @],
        weights |-> w,
        stop |-> FALSE]
  ELSE IF cb.wait + 1 >= Patience(f)
       THEN [es |-> [cb EXCEPT !.wait = cb.wait + 1, !.stopped_epoch = epoch],
             weights |-> IF RestoreBestWeights(f) THEN cb.best_weights ELSE w,
             stop |-> TRUE]
       ELSE [es |-> [cb EXCEPT !.wait = cb.wait + 1],
             weights |-> w,
             stop |-> FALSE]

InFit == fpc \in {"fit1", "fit2"}

\* One epoch of the training loop of fit: the model is trained, its
\* validation loss is measured and appended to the history, and the
\* callbacks run.
TrainEpoch ==
  /\ InFit
  /\ epochs_run < Epochs(CurFit)
  /\ ~model.stop_training
  /\ \E cur \in Losses :
       LET w == epochs_run + 1
       IN  IF HasCallback(CurFit)
           THEN LET r == OnEpochEnd(CurFit, es, epochs_run, w, cur)
                IN  /\ es' = r.es
                    /\ model' = [model EXCEPT !.weights = r.weights,
                                              !.stop_training = r.stop,
                                              !.iterations = @ + 1]
                    /\ monitored' = Record(monitored, epochs_run + 1, cur)
           ELSE /\ model' = [model EXCEPT !.weights = w,
                                              !.iterations = @ + 1]
                /\ UNCHANGED <<es, monitored>>
  /\ epochs_run' = epochs_run + 1
  /\ UNCHANGED <<nb, fpc, overfit_score, earlystop_score>>
  /\ UNCHANGED notFit

\* fit returns history: all epochs are done, or a callback set stop_training
FitReturn ==
  /\ InFit
  /\ epochs_run = Epochs(CurFit) \/ model.stop_training
  /\ fpc' = IF nb = "cnn" THEN "done"
            ELSE IF fpc = "fit1" THEN "score1" ELSE "assert_epochs"
  /\ UNCHANGED <<nb, model, epochs_run, es, monitored, overfit_score,
                 earlystop_score>>
  /\ UNCHANGED notFit

\* Part 1: model = Sequential([...]); model.compile(...); the fit call starts
Part1Model ==
  /\ nb = "exercise"
  /\ fpc = "model1"
  /\ model' = NewModel(model.id + 1)
  /\ epochs_run' = 0
  /\ fpc' = "fit1"
  /\ UNCHANGED <<nb, es, monitored, overfit_score, earlystop_score>>
  /\ UNCHANGED notFit

\* pred_y = model.predict(...); overfit_score = mean_absolute_error(...)
Part1Score ==
  /\ fpc = "score1"
  /\ overfit_score' \in Scores
  /\ fpc' = "model2"
  /\ UNCHANGED <<nb, model, epochs_run, es, monitored, earlystop_score>>
  /\ UNCHANGED notFit

\* a variant of BuildAndCompile that compiles the model at hand without
\* constructing a new one
CompileOnly ==
  /\ fpc = "model2"
  /\ fpc' = "callback"
  /\ UNCHANGED <<nb, model, epochs_run, es, monitored, overfit_score,
                 earlystop_score>>
  /\ UNCHANGED notFit

\* model = build_model(); model.compile(...) in the exercise notebook, and
\* model = keras.Model(...); model.compile(...) in the CNN notebook
BuildAndCompile ==
  /\ fpc = "model2"
  /\ model' = NewModel(model.id + 1)
  /\ fpc' = "callback"
  /\ UNCHANGED <<nb, epochs_run, es, monitored, overfit_score, earlystop_score>>
  /\ UNCHANGED notFit

\* callbacks = [keras.callbacks.EarlyStopping(...)] (cb2 in the CNN
\* notebook), and the fit call starts: on_train_begin
StartFit ==
  /\ fpc = "callback"
  /\ es' = OnTrainBegin
  /\ monitored' = NoHistory
  /\ epochs_run' = 0
  /\ model' = [model EXCEPT !.stop_training = FALSE]
  /\ fpc' = "fit2"
  /\ UNCHANGED <<nb, overfit_score, earlystop_score>>
  /\ UNCHANGED notFit

\* assert len(history.epoch) < 256
AssertEpochs ==
  /\ fpc = "assert_epochs"
  /\ fpc' = IF epochs_run < 256 THEN "score2" ELSE "AssertionError"
  /\ UNCHANGED <<nb, model, epochs_run, es, monitored, overfit_score,
                 earlystop_score>>
  /\ UNCHANGED notFit

\* pred_y = model.predict(...); earlystop_score = mean_absolute_error(...)
Part2Score ==
  /\ fpc = "score2"
  /\ earlystop_score' \in Scores
  /\ fpc' = "assert_score"
  /\ UNCHANGED <<nb, model, epochs_run, es, monitored, overfit_score>>
  /\ UNCHANGED notFit

\* assert earlystop_score < overfit_score
AssertScore ==
  /\ fpc = "assert_score"
  /\ fpc' = IF earlystop_score < overfit_score THEN "done" ELSE "AssertionError"
  /\ UNCHANGED <<nb, model, epochs_run, es, monitored, overfit_score,
                 earlystop_score>>
  /\ UNCHANGED notFit

-----------------------------------------------------------------------------
(* exercise-1_keras.ipynb: the Sequential models and their parameter count *)

\* values of len(X_cols); the notebook's table has 9 input columns
InputSizes == {1, 2, 3, 9}

\* values of hidden_size
HiddenSizes == {1, 2, 3, 64, 128}

\* a dense layer without its bias terms
DenseNoBias(input_dim, units) == input_dim * units

\* parameters of a dense layer: one weight per input and unit, and one bias
\* per unit
DenseParams(input_dim, units) == (input_dim + 1) * units

\* layers.Dense(units, ...) placed after a layer of input_dim outputs
Dense(units, input_dim) == [units |-> units, input_dim |-> input_dim]

\* the output size of the last layer of a model
OutputDim(ls) == ls[Len(ls)].units

\* model.add(layers.Dense(units, ...))
Add(ls, units) == Append(ls, Dense(units, OutputDim(ls)))

\* model.count_params()
RECURSIVE CountParams(_)
CountParams(ls) ==
  IF ls = << >> THEN 0
  ELSE DenseParams(Head(ls).input_dim, Head(ls).units) + CountParams(Tail(ls))

\* model = Sequential([Dense(64, input_shape=(len(X_cols),)), Dense(64),
\*                     Dense(1)])
FirstModel ==
  /\ bpc = "call"
  /\ builder = "first"
  /\ layersL' = Add(Add(<<Dense(64, n_inputs)>>, 64), 1)
  /\ bpc' = "built"
  /\ UNCHANGED <<builder, n_inputs, n_layers, hidden_size, i_layer, n_params>>
  /\ UNCHANGED notBuild

\* Part 1: model = Sequential([Dense(128, input_shape=(len(X_cols),)),
\*                             Dense(128), Dense(128), Dense(1)])
Part1Sequential ==
  /\ bpc = "call"
  /\ builder = "part1"
  /\ layersL' = Add(Add(Add(<<Dense(128, n_inputs)>>, 128), 128), 1)
  /\ bpc' = "built"
  /\ UNCHANGED <<builder, n_inputs, n_layers, hidden_size, i_layer, n_params>>
  /\ UNCHANGED notBuild

\* build_model: model = Sequential([Dense(hidden_size, input_shape=...)])
BuildFirstLayer ==
  /\ bpc = "call"
  /\ builder = "build_model"
  /\ layersL' = <<Dense(hidden_size, n_inputs)>>
  /\ i_layer' = 0
  /\ bpc' = "loop"
  /\ UNCHANGED <<builder, n_inputs, n_layers, hidden_size, n_params>>
  /\ UNCHANGED notBuild

\* build_model: one pass of for i in range(n_layers-1)
AddHidden ==
  /\ bpc = "loop"
  /\ i_layer < n_layers - 1
  /\ layersL' = Add(layersL, hidden_size)
  /\ i_layer' = i_layer + 1
  /\ UNCHANGED <<bpc, builder, n_inputs, n_layers, hidden_size, n_params>>
  /\ UNCHANGED notBuild

\* build_model: the loop is over; model.add(Dense(1)); return model
AddOutput ==
  /\ bpc = "loop"
  /\ ~(i_layer < n_layers - 1)
  /\ layersL' = Add(layersL, 1)
  /\ bpc' = "built"
  /\ UNCHANGED <<builder, n_inputs, n_layers, hidden_size, i_layer, n_params>>
  /\ UNCHANGED notBuild

\* model.count_params() on the model just constructed
CallCountParams ==
  /\ bpc = "built"
  /\ n_params' = CountParams(layersL)
  /\ bpc' = "counted"
  /\ UNCHANGED <<builder, n_inputs, n_layers, hidden_size, i_layer, layersL>>
  /\ UNCHANGED notBuild

-----------------------------------------------------------------------------
(* exercise-1_keras.ipynb: reading the auto-MPG file and dropping the rows *)
(* with missing values                                                     *)

column_names == <<"MPG", "Cylinders", "Displacement", "Horsepower", "Weight",
                  "Acceleration", "Model Year", "Origin">>

Columns == {column_names[c] : c \in DOMAIN column_names}

\* what read_csv stores for a field it reads as missing
NaN == -1

\* the fields read_csv reads as missing: na_values = "?" and the defaults
NaTokens == {"?", "NA"}

\* the numeric fields of the modelled files
NumTokens == {"1", "2"}

\* read_csv's conversion of one field
ParseField(t) ==
  CASE t \in NaTokens -> NaN
    [] t = "1" -> 1
    [] t = "2" -> 2
    [] t = "3" -> 3

\* a line whose fields are all numeric; v is its MPG field
CompleteLine(v) == [c \in DOMAIN column_names |-> IF c = 1 THEN v ELSE "1"]

\* a line whose fields in the columns cs hold the token t
LineWith(cs, t) == [c \in DOMAIN column_names |-> IF c \in cs THEN t ELSE "1"]

\* the lines of the modelled files: complete ones, lines with one missing
\* field in any column, lines with two and with only missing fields
Lines ==
  {CompleteLine(v) : v \in NumTokens}
    \cup {LineWith({c}, t) : c \in DOMAIN column_names, t \in NaTokens}
    \cup {LineWith({1, 4}, "?"), LineWith(DOMAIN column_names, "?")}

\* the files of at most k lines
Files(k) == UNION {[1..m -> Lines] : m \in 0..k}

\* pd.read_csv(dataset_path, names=column_names, na_values="?", ...): one row
\* per line, labelled 0, 1, ... in file order
ReadCsv(f) ==
  [r \in 1..Len(f) |->
     [index |-> r - 1,
      row   |-> [c \in Columns |->
                   ParseField(f[r][CHOOSE k \in DOMAIN column_names :
                                     column_names[k] = c])]]]

\* the row has a missing value in some column
AnyNa(r) == \E c \in Columns : r.row[c] = NaN

\* the row has a missing value in every column
AllNa(r) == \A c \in Columns : r.row[c] = NaN

\* dropna(how='all')
DropNaAll(df) == SelectSeq(df, LAMBDA r : ~AllNa(r))

\* df.dropna(): axis 0 and how = 'any' are the defaults
DropNa(df) == SelectSeq(df, LAMBDA r : ~AnyNa(r))

\* data = pd.read_csv(...)
ReadData ==
  /\ ppc = "read_csv"
  /\ data' = ReadCsv(csv)
  /\ columns' = column_names
  /\ ppc' = "dropna"
  /\ UNCHANGED <<csv, new_origin, X_cols>>
  /\ UNCHANGED notPrep

\* data.dropna(inplace=True)
DropMissing ==
  /\ ppc = "dropna"
  /\ data' = DropNa(data)
  /\ ppc' = "dropped"
  /\ UNCHANGED <<csv, columns, new_origin, X_cols>>
  /\ UNCHANGED notPrep

-----------------------------------------------------------------------------
(* exercise-1_keras.ipynb: one-hot encoding of Origin and the input columns *)

\* the Origin fields of the modelled files
OriginTokens == {"1", "2", "3"}

\* a complete line with the given MPG, Weight and Origin fields
OriginLine(mpg, wt, o) ==
  [c \in DOMAIN column_names |->
     IF c = 1 THEN mpg ELSE IF c = 5 THEN wt ELSE IF c = 8 THEN o ELSE "1"]

\* the lines of the files the encoding is modelled on: complete lines and a
\* line without its Horsepower
OriginLines ==
  {OriginLine(mpg, wt, o) : mpg \in NumTokens, wt \in NumTokens,
                            o \in OriginTokens}
    \cup {LineWith({4}, "?")}

\* the files of at most k such lines
OriginFiles(k) == UNION {[1..m -> OriginLines] : m \in 0..k}

\* no DataFrame is bound
NoFrame == [columns |-> << >>, rows |-> << >>]

\* the elements of a sequence
Range(q) == {q[k] : k \in DOMAIN q}

\* the values of S in ascending order
RECURSIVE SortedSeq(_)
SortedSeq(S) ==
  IF S = {} THEN << >>
  ELSE LET m == CHOOSE x \in S : \A z \in S : x <= z
       IN  <<m>> \o SortedSeq(S \ {m})

\* the name get_dummies gives the indicator column of value v
DummyName(v) ==
  CASE v = 1 -> "Origin_1"
    [] v = 2 -> "Origin_2"
    [] v = 3 -> "Origin_3"

\* get_dummies(..., drop_first=True): no indicator for the lowest value
GetDummiesDropFirst(df, col) ==
  LET all == SortedSeq({df[k].row[col] : k \in DOMAIN df})
      vals == IF all = << >> THEN all ELSE Tail(all)
      names == [j \in DOMAIN vals |-> DummyName(vals[j])]
  IN  [columns |-> names,
       rows |-> [k \in DOMAIN df |->
                   [index |-> df[k].index,
                    row |-> [nm \in Range(names) |->
                               IF nm = DummyName(df[k].row[col])
                               THEN 1 ELSE 0]]]]

\* pd.get_dummies(df[col], prefix='Origin'): one indicator column per
\* distinct value, in ascending order of the values, with the labels of df
GetDummies(df, col) ==
  LET vals == SortedSeq({df[k].row[col] : k \in DOMAIN df})
      names == [j \in DOMAIN vals |-> DummyName(vals[j])]
  IN  [columns |-> names,
       rows |-> [k \in DOMAIN df |->
                   [index |-> df[k].index,
                    row |-> [nm \in Range(names) |->
                               IF nm = DummyName(df[k].row[col])
                               THEN 1 ELSE 0]]]]

\* the row of a frame with the given label
RowAt(rows, label) == (CHOOSE r \in Range(rows) : r.index = label).row

\* pd.concat([df, other], axis=1) for two frames with the same labels: the
\* rows are joined on their labels
Concat(df, other) ==
  [k \in DOMAIN df |->
     [index |-> df[k].index,
      row |-> df[k].row @@ RowAt(other.rows, df[k].index)]]

\* df.drop(col, axis=1): the rows without the column
DropColumn(df, col) ==
  [k \in DOMAIN df |->
     [index |-> df[k].index,
      row |-> [c \in (DOMAIN df[k].row) \ {col} |-> df[k].row[c]]]]

\* new_origin = pd.get_dummies(data['Origin'], prefix='Origin')
OneHot ==
  /\ ppc = "dropped"
  /\ new_origin' = GetDummies(data, "Origin")
  /\ ppc' = "concat"
  /\ UNCHANGED <<csv, data, columns, X_cols>>
  /\ UNCHANGED notPrep

\* data = pd.concat([data, new_origin], axis=1)
ConcatOrigin ==
  /\ ppc = "concat"
  /\ data' = Concat(data, new_origin)
  /\ columns' = columns \o new_origin.columns
  /\ ppc' = "drop"
  /\ UNCHANGED <<csv, new_origin, X_cols>>
  /\ UNCHANGED notPrep

\* data.drop('Origin', axis=1, inplace=True)
DropOrigin ==
  /\ ppc = "drop"
  /\ data' = DropColumn(data, "Origin")
  /\ columns' = SelectSeq(columns, LAMBDA c : c # "Origin")
  /\ ppc' = "cols"
  /\ UNCHANGED <<csv, new_origin, X_cols>>
  /\ UNCHANGED notPrep

\* y_col = 'MPG'; X_cols = data.columns[1:]
SelectCols ==
  /\ ppc = "cols"
  /\ X_cols' = Tail(columns)
  /\ ppc' = "normalize"
  /\ UNCHANGED <<csv, data, columns, new_origin>>
  /\ UNCHANGED notPrep

-----------------------------------------------------------------------------
(* exercise-1_keras.ipynb: normalization of the input columns.  With n rows, *)
(* x.mean() = sum/n and x.std()^2 = SS/(n^2 * (n-1)), where SS is the sum of *)
(* the squares of the n * (x - x.mean()).  A normalized value                 *)
(* (x - x.mean()) / x.std() is kept exactly, as dev * sqrt(scale2) with       *)
(* dev = n * (x - x.mean()) and scale2 = (n-1)/SS; it is NaN when scale2 is   *)
(* not finite (one row: std is 0/0; equal values: 0 divided by a std of 0).   *)

\* f[1] + ... + f[k]
RECURSIVE SumTo(_, _)
SumTo(f, k) == IF k = 0 THEN 0 ELSE f[k] + SumTo(f, k - 1)

\* n * x.mean() for column c
ColSum(df, c) == SumTo([k \in DOMAIN df |-> df[k].row[c]], Len(df))

\* n * (x - x.mean()) for row k of column c
Dev(df, c, k) == Len(df) * df[k].row[c] - ColSum(df, c)

\* the sum of the squares of the n * (x - x.mean()) of column c
SumSq(df, c) ==
  SumTo([k \in DOMAIN df |-> Dev(df, c, k) * Dev(df, c, k)], Len(df))

\* a standard deviation with n in place of n - 1
StdScale2Population(df, c) == Rat(Len(df), SumSq(df, c))

\* x.std() of a pandas column divides by n - 1: 1 / (n * x.std())^2
StdScale2(df, c) == Rat(Len(df) - 1, SumSq(df, c))

\* (x - x.mean()) / x.std() for row k of column c
Standardize(df, c, k) ==
  [dev |-> Dev(df, c, k), scale2 |-> StdScale2(df, c)]

\* df[cols] = df[cols].apply(lambda x: (x - x.mean()) / x.std())
NormalizeCols(df, cols) ==
  [k \in DOMAIN df |->
     [index |-> df[k].index,
      row |-> [c \in DOMAIN df[k].row |->
                 IF c \in Range(cols) THEN Standardize(df, c, k)
                 ELSE df[k].row[c]]]]

\* data[X_cols] = data[X_cols].apply(lambda x: (x - x.mean()) / x.std())
Normalize ==
  /\ ppc = "normalize"
  /\ data' = NormalizeCols(data, X_cols)
  /\ ppc' = "ready"
  /\ UNCHANGED <<csv, columns, new_origin, X_cols>>
  /\ UNCHANGED notPrep

-----------------------------------------------------------------------------
(* cnn_life_predict.ipynb: the parity plot and the error metrics.  Both     *)
(* cells loop over dsetL and undo the log transform of the labels when the   *)
(* notebook's logy, the one get_data was called with, is set.                *)

\* dsetL = ['trn', 'val', 'tst'], in order
dsetOrder == <<"trn", "val", "tst">>

\* the labels left as they are
NoInverse(l) == l

\* 10**l for a label l of the model
RECURSIVE Pow10(_)
Pow10(l) == IF l = 0 THEN 1 ELSE 10 * Pow10(l - 1)

\* if logy: 10**y[dset] else: y[dset]
Cycles(labels, lg) ==
  [k \in DOMAIN labels |-> IF lg THEN Pow10(labels[k]) ELSE labels[k]]

\* no set has been handled
NoSets == << >>

\* for dset in dsetL: ypred[dset] = np.squeeze(model.predict(X[dset])); the
\* cells that evaluate the predictions follow
Predict ==
  /\ gpc = "done"
  /\ epc = "idle"
  /\ epc' = "parity"
  /\ dsetI' = 1
  /\ UNCHANGED <<yT, yM, raised>>
  /\ UNCHANGED notEval

\* One pass of the loop of the parity plot: yT is computed and, unless np.min
\* raises ValueError on an empty set, plotted; the error metrics follow.
ParityStep ==
  /\ gpc = "done"
  /\ epc = "parity"
  /\ LET dset == dsetOrder[dsetI]
     IN  /\ yT' = yT @@ (dset :> Cycles(y[dset], logy))
         /\ IF n[dset] = 0
            THEN /\ raised' = raised \cup {"parity"}
                 /\ epc' = "metrics"
                 /\ dsetI' = 1
            ELSE /\ raised' = raised
                 /\ epc' = IF dsetI = Len(dsetOrder) THEN "metrics" ELSE epc
                 /\ dsetI' = IF dsetI = Len(dsetOrder) THEN 1 ELSE dsetI + 1
  /\ UNCHANGED yM
  /\ UNCHANGED notEval

\* One pass of the first loop of the error metrics: the errors are taken
\* relative to 10**y[dset] (to y[dset] without logy); max() raises ValueError
\* on an empty set.
MetricsStep ==
  /\ gpc = "done"
  /\ epc = "metrics"
  /\ LET dset == dsetOrder[dsetI]
     IN  /\ yM' = yM @@ (dset :> Cycles(y[dset], logy))
         /\ IF n[dset] = 0
            THEN /\ raised' = raised \cup {"metrics"}
                 /\ epc' = "end"
                 /\ dsetI' = 1
            ELSE /\ raised' = raised
                 /\ epc' = IF dsetI = Len(dsetOrder) THEN "end" ELSE epc
                 /\ dsetI' = IF dsetI = Len(dsetOrder) THEN 1 ELSE dsetI + 1
  /\ UNCHANGED yT
  /\ UNCHANGED notEval

-----------------------------------------------------------------------------
(* The data loaders: get_data retrieves remote_url into fname and opens      *)
(* fname; the exercise notebook asks the framework's get_file for            *)
(* auto-mpg.data.  A fetch succeeds or raises, as the network decides.       *)

\* no fetch has been issued
NoFetches == [get_data |-> 0, get_file |-> 0]

\* a variant of Fetch that retrieves the file only when fname does not exist
FetchIfMissing ==
  /\ gpc = "fetch"
  /\ IF local # << >>
     THEN /\ gpc' = "open"
          /\ UNCHANGED <<local, fetches, attempts, failed, refetch>>
     ELSE /\ fetches' = [fetches EXCEPT !.get_data = @ + 1]
          /\ attempts' = attempts + 1
          /\ refetch' = refetch
          /\ \E ok \in BOOLEAN :
               IF ok
               THEN /\ local' = remote
                    /\ failed' = failed
                    /\ gpc' = "open"
               ELSE /\ local' = local
                    /\ failed' = TRUE
                    /\ gpc' = "URLError"
  /\ UNCHANGED <<cells, logy, batchV, cycfailV, top_nval, iD, y, n, weights,
                 runs, prevID>>
  /\ UNCHANGED <<Xin, X, nfeat>>
  /\ UNCHANGED <<remote, cached, loads>>
  /\ UNCHANGED <<fitVars, buildVars, prepVars, evalVars, cnnVars>>

\* a variant of Fetch that goes on to open fname when the retrieval raises
FetchIgnoreError ==
  /\ gpc = "fetch"
  /\ fetches' = [fetches EXCEPT !.get_data = @ + 1]
  /\ attempts' = attempts + 1
  /\ refetch' = IF local # << >> THEN refetch \cup {"get_data"} ELSE refetch
  /\ \E ok \in BOOLEAN :
       /\ local' = IF ok THEN remote ELSE local
       /\ failed' = (failed \/ ~ok)
  /\ gpc' = "open"
  /\ UNCHANGED <<cells, logy, batchV, cycfailV, top_nval, iD, y, n, weights,
                 runs, prevID>>
  /\ UNCHANGED <<Xin, X, nfeat>>
  /\ UNCHANGED <<remote, cached, loads>>
  /\ UNCHANGED <<fitVars, buildVars, prepVars, evalVars, cnnVars>>

\* request.urlretrieve(remote_url, fname): the file is retrieved into fname,
\* or URLError is raised and leaves get_data
Fetch ==
  /\ gpc = "fetch"
  /\ fetches' = [fetches EXCEPT !.get_data = @ + 1]
  /\ attempts' = attempts + 1
  /\ refetch' = IF local # << >> THEN refetch \cup {"get_data"} ELSE refetch
  /\ \E ok \in BOOLEAN :
       IF ok
       THEN /\ local' = remote
            /\ failed' = failed
            /\ gpc' = "open"
       ELSE /\ local' = local
            /\ failed' = TRUE
            /\ gpc' = "URLError"
  /\ UNCHANGED <<cells, logy, batchV, cycfailV, top_nval, iD, y, n, weights,
                 runs, prevID>>
  /\ UNCHANGED <<Xin, X, nfeat>>
  /\ UNCHANGED <<remote, cached, loads>>
  /\ UNCHANGED <<fitVars, buildVars, prepVars, evalVars, cnnVars>>

\* f = h5py.File(fname, 'r'): OSError when there is no such file
OpenFile ==
  /\ gpc = "open"
  /\ IF local = << >>
     THEN /\ gpc' = "OSError"
          /\ cells' = cells
     ELSE /\ gpc' = "loop"
          /\ cells' = local
  /\ UNCHANGED <<logy, batchV, cycfailV, top_nval, iD, y, n, weights, runs,
                 prevID>>
  /\ UNCHANGED <<Xin, X, nfeat>>
  /\ UNCHANGED notGd

\* the cell that calls get_data is executed again after get_data returned
CallAgain ==
  /\ gpc = "done"
  /\ runs < MaxRuns
  /\ runs' = runs + 1
  /\ prevID' = iD
  /\ gpc' = "fetch"
  /\ cells' = << >>
  /\ batchV' = << >>
  /\ cycfailV' = << >>
  /\ top_nval' = {}
  /\ iD' = NoMasks
  /\ y' = [d \in dsetL |-> << >>]
  /\ n' = [d \in dsetL |-> 0]
  /\ weights' = << >>
  /\ Xin' = NoArray
  /\ X' = [d \in dsetL |-> NoArray]
  /\ nfeat' = 0
  /\ attempts' = 0
  /\ failed' = FALSE
  /\ UNCHANGED logy
  /\ UNCHANGED <<remote, local, cached, fetches, refetch, loads>>
  /\ UNCHANGED <<fitVars, buildVars, prepVars, evalVars, cnnVars>>

\* dataset_path = keras.utils.get_file("auto-mpg.data", url): the file in the
\* cache is used when there is one; otherwise it is downloaded into the
\* cache, or an exception is raised and leaves the cell
GetFile ==
  /\ ppc = "get_file"
  /\ IF cached
     THEN /\ ppc' = "read_csv"
          /\ UNCHANGED <<cached, fetches, attempts, failed>>
     ELSE /\ fetches' = [fetches EXCEPT !.get_file = @ + 1]
          /\ attempts' = attempts + 1
          /\ \E ok \in BOOLEAN :
               /\ cached' = ok
               /\ failed' = ~ok
               /\ ppc' = IF ok THEN "read_csv" ELSE "Exception"
  /\ UNCHANGED <<remote, local, refetch, loads>>
  /\ UNCHANGED <<csv, data, columns, new_origin, X_cols>>
  /\ UNCHANGED <<gdVars, fitVars, buildVars, evalVars, cnnVars>>

\* the get_file cell is executed again
LoadAgain ==
  /\ ppc \in {"read_csv", "Exception"}
  /\ loads < MaxLoads
  /\ loads' = loads + 1
  /\ ppc' = "get_file"
  /\ attempts' = 0
  /\ failed' = FALSE
  /\ UNCHANGED <<remote, local, cached, fetches, refetch>>
  /\ UNCHANGED <<csv, data, columns, new_origin, X_cols>>
  /\ UNCHANGED <<gdVars, fitVars, buildVars, evalVars, cnnVars>>

-----------------------------------------------------------------------------
(* cnn_life_predict.ipynb: the model cell.  Every call of a layer on a      *)
(* tensor creates a tensor that records the layer and the tensor it was      *)
(* called on; keras.Model(inputs, outputs) holds the layers on the way from  *)
(* inputs to outputs.                                                        *)

\* X['trn'].shape[1] and X['trn'].shape[2] of the modelled inputs
GridRows == {3, 5, 9}

GridCols == {3, 4, 5, 6, 10, 20}

\* the layers of the cell
Conv2D(filters) == [kind |-> "Conv2D", size |-> filters]

Flatten == [kind |-> "Flatten", size |-> 0]

DenseLayer(units) == [kind |-> "Dense", size |-> units]

\* inputs = keras.Input(shape=(..., ..., 1), name='farr')
InputTensor(r, c) ==
  [layer |-> [kind |-> "Input", size |-> 0], from |-> 0, shape |-> <<r, c, 1>>]

\* the shape of the output of a layer called on a tensor of shape sh: a 3x3
\* convolution without padding, Flatten and Dense
OutShape(layer, sh) ==
  CASE layer.kind = "Conv2D" -> <<sh[1] - 2, sh[2] - 2, layer.size>>
    [] layer.kind = "Flatten" -> <<sh[1] * sh[2] * sh[3]>>
    [] layer.kind = "Dense" -> <<layer.size>>

\* layer(t): the tensors with the new tensor, numbered in order of creation
Call(ts, layer, t) ==
  Append(ts, [layer |-> layer, from |-> t,
              shape |-> OutShape(layer, ts[t].shape)])

\* the layers on the way from the input tensor (number 1) to tensor t
RECURSIVE PathTo(_, _)
PathTo(ts, t) ==
  IF t = 1 THEN << >> ELSE Append(PathTo(ts, ts[t].from), ts[t].layer)

\* x = keras.layers.Conv2D(16, (3, 3), activation='relu')(inputs)
FirstConv ==
  /\ cpc = "conv16"
  /\ tensors' = Call(tensors, Conv2D(16), 1)
  /\ x_tensor' = Len(tensors) + 1
  /\ cpc' = "conv8"
  /\ UNCHANGED <<outputs, cnn_layers>>
  /\ UNCHANGED notCnn

\* x = keras.layers.Conv2D(8, (3, 3), activation='relu')(inputs)
SecondConv ==
  /\ cpc = "conv8"
  /\ tensors' = Call(tensors, Conv2D(8), 1)
  /\ x_tensor' = Len(tensors) + 1
  /\ cpc' = "flatten"
  /\ UNCHANGED <<outputs, cnn_layers>>
  /\ UNCHANGED notCnn

\* x = keras.layers.Flatten()(x)
FlattenX ==
  /\ cpc = "flatten"
  /\ tensors' = Call(tensors, Flatten, x_tensor)
  /\ x_tensor' = Len(tensors) + 1
  /\ cpc' = "dense"
  /\ UNCHANGED <<outputs, cnn_layers>>
  /\ UNCHANGED notCnn

\* x = keras.layers.Dense(16, activation='relu')(x)
DenseX ==
  /\ cpc = "dense"
  /\ tensors' = Call(tensors, DenseLayer(16), x_tensor)
  /\ x_tensor' = Len(tensors) + 1
  /\ cpc' = "outputs"
  /\ UNCHANGED <<outputs, cnn_layers>>
  /\ UNCHANGED notCnn

\* outputs = keras.layers.Dense(1)(x)
OutputLayer ==
  /\ cpc = "outputs"
  /\ tensors' = Call(tensors, DenseLayer(1), x_tensor)
  /\ outputs' = Len(tensors) + 1
  /\ cpc' = "model"
  /\ UNCHANGED <<x_tensor, cnn_layers>>
  /\ UNCHANGED notCnn

\* model = keras.Model(inputs=inputs, outputs=outputs, name='functional_1')
MakeModel ==
  /\ cpc = "model"
  /\ cnn_layers' = PathTo(tensors, outputs)
  /\ cpc' = "summary"
  /\ UNCHANGED <<tensors, x_tensor, outputs>>
  /\ UNCHANGED notCnn

-----------------------------------------------------------------------------
(* Specifications *)

\* the fitting section has not run
FitIdle ==
  /\ nb = "none"
  /\ fpc = "idle"
  /\ model = NoModel
  /\ epochs_run = 0
  /\ es = OnTrainBegin
  /\ monitored = NoHistory
  /\ overfit_score = 0
  /\ earlystop_score = 0

\* no model is under construction
BuildIdle ==
  /\ bpc = "idle"
  /\ builder = "none"
  /\ n_inputs = 0
  /\ n_layers = 0
  /\ hidden_size = 0
  /\ i_layer = 0
  /\ layersL = << >>
  /\ n_params = 0

\* the preprocessing has not run
PrepIdle ==
  /\ ppc = "idle"
  /\ csv = << >>
  /\ data = << >>
  /\ columns = << >>
  /\ new_origin = NoFrame
  /\ X_cols = << >>

\* the evaluation cells have not run
EvalIdle ==
  /\ epc = "idle"
  /\ dsetI = 0
  /\ yT = NoSets
  /\ yM = NoSets
  /\ raised = {}

\* no loader has run
FetchIdle ==
  /\ remote = << >>
  /\ local = << >>
  /\ cached = FALSE
  /\ fetches = NoFetches
  /\ attempts = 0
  /\ failed = FALSE
  /\ refetch = {}
  /\ loads = 0

\* the model cell of the CNN notebook has not run
CnnIdle ==
  /\ cpc = "idle"
  /\ tensors = << >>
  /\ x_tensor = 0
  /\ outputs = 0
  /\ cnn_layers = << >>

\* get_data has not run
GdIdle ==
  /\ gpc = "idle"
  /\ cells = << >>
  /\ logy = TRUE
  /\ batchV = << >>
  /\ cycfailV = << >>
  /\ top_nval = {}
  /\ iD = NoMasks
  /\ y = [d \in dsetL |-> << >>]
  /\ n = [d \in dsetL |-> 0]
  /\ weights = << >>
  /\ Xin = NoArray
  /\ X = [d \in dsetL |-> NoArray]
  /\ nfeat = 0
  /\ runs = 0
  /\ prevID = NoMasks

\* the state in which get_data starts on a file
StartGetData(file, lg) ==
  /\ gpc = "loop"
  /\ cells = file
  /\ logy = lg
  /\ batchV = << >>
  /\ cycfailV = << >>
  /\ top_nval = {}
  /\ iD = NoMasks
  /\ y = [d \in dsetL |-> << >>]
  /\ n = [d \in dsetL |-> 0]
  /\ weights = << >>
  /\ Xin = NoArray
  /\ X = [d \in dsetL |-> NoArray]
  /\ nfeat = 0
  /\ runs = 1
  /\ prevID = NoMasks
  /\ FitIdle
  /\ BuildIdle
  /\ PrepIdle
  /\ EvalIdle
  /\ FetchIdle
  /\ CnnIdle

NextGetData ==
  \/ CellLoop
  \/ TestSet
  \/ DrawVal
  \/ ValTrnMasks
  \/ BuildXY
  \/ SampleWeights
  \/ Return

\* logy = True in the notebook's call of get_data
Init == \E file \in NamedFiles(MaxCells) : StartGetData(file, TRUE)

Next == NextGetData

\* one execution of get_data on a file of named cells
Spec == Init /\ [][Next]_vars

InitRerun == \E file \in NamedFiles(MaxRerunCells) : StartGetData(file, TRUE)

NextRerun == NextGetData \/ Rerun

\* repeated executions of get_data on the same file
SpecRerun == InitRerun /\ [][NextRerun]_vars

InitLabels ==
  \E file \in LabelledFiles(MaxCells), lg \in BOOLEAN : StartGetData(file, lg)

\* one execution of get_data on a file of cells with different cycle lives
SpecLabels == InitLabels /\ [][NextGetData]_vars

NextParity ==
  \/ NextGetData
  \/ Predict
  \/ ParityStep
  \/ MetricsStep

\* get_data on a file of cells with different cycle lives, followed by the
\* cells that evaluate the predictions
SpecParity == InitLabels /\ [][NextParity]_vars

\* get_data is called on a file of cells with different curves
InitGrid == \E file \in GridFiles(MaxGridCells) : StartGetData(file, TRUE)

\* one execution of get_data on a file of cells with different curves
SpecGrid == InitGrid /\ [][NextGetData]_vars

\* the model cell starts: inputs = keras.Input(shape=(..., ..., 1)) for the
\* shape of the feature grids
InitCnn ==
  /\ cpc = "conv16"
  /\ \E r \in GridRows, c \in GridCols : tensors = <<InputTensor(r, c)>>
  /\ x_tensor = 0
  /\ outputs = 0
  /\ cnn_layers = << >>
  /\ GdIdle
  /\ FitIdle
  /\ BuildIdle
  /\ PrepIdle
  /\ EvalIdle
  /\ FetchIdle

NextCnn ==
  \/ FirstConv
  \/ SecondConv
  \/ FlattenX
  \/ DenseX
  \/ OutputLayer
  \/ MakeModel

\* the model cell of the CNN notebook
SpecCnn == InitCnn /\ [][NextCnn]_vars

\* the fitting section of a notebook starts: Part 1 of the exercise notebook,
\* or the model definition of the CNN notebook
InitFit ==
  /\ nb \in {"exercise", "cnn"}
  /\ fpc = IF nb = "exercise" THEN "model1" ELSE "model2"
  /\ model = NoModel
  /\ epochs_run = 0
  /\ es = OnTrainBegin
  /\ monitored = NoHistory
  /\ overfit_score = 0
  /\ earlystop_score = 0
  /\ GdIdle
  /\ BuildIdle
  /\ PrepIdle
  /\ EvalIdle
  /\ FetchIdle
  /\ CnnIdle

NextFit ==
  \/ Part1Model
  \/ TrainEpoch
  \/ FitReturn
  \/ Part1Score
  \/ BuildAndCompile
  \/ StartFit
  \/ AssertEpochs
  \/ Part2Score
  \/ AssertScore

\* A notebook starts to load its data: get_data is called in the CNN
\* notebook, or the get_file cell runs in the exercise notebook; fname may
\* be left from an earlier session, and so may the cached auto-mpg.data.
InitFetch ==
  /\ remote \in NamedFiles(MaxFetchCells)
  /\ local \in {<< >>, remote}
  /\ cached \in BOOLEAN
  /\ \/ gpc = "fetch" /\ runs = 1 /\ ppc = "idle" /\ loads = 0
     \/ gpc = "idle" /\ runs = 0 /\ ppc = "get_file" /\ loads = 1
  /\ fetches = NoFetches
  /\ attempts = 0
  /\ failed = FALSE
  /\ refetch = {}
  /\ cells = << >>
  /\ logy = TRUE
  /\ batchV = << >>
  /\ cycfailV = << >>
  /\ top_nval = {}
  /\ iD = NoMasks
  /\ y = [d \in dsetL |-> << >>]
  /\ n = [d \in dsetL |-> 0]
  /\ weights = << >>
  /\ Xin = NoArray
  /\ X = [d \in dsetL |-> NoArray]
  /\ nfeat = 0
  /\ prevID = NoMasks
  /\ csv = << >>
  /\ data = << >>
  /\ columns = << >>
  /\ new_origin = NoFrame
  /\ X_cols = << >>
  /\ FitIdle
  /\ BuildIdle
  /\ EvalIdle
  /\ CnnIdle

NextFetch ==
  \/ Fetch
  \/ OpenFile
  \/ NextGetData
  \/ CallAgain
  \/ GetFile
  \/ LoadAgain

\* the data loaders of the two notebooks
SpecFetch == InitFetch /\ [][NextFetch]_vars

\* the fitting sections of the two notebooks
SpecFit == InitFit /\ [][NextFit]_vars

\* a cell of the exercise notebook starts to construct a model; the two
\* literal models take no arguments
InitBuild ==
  /\ bpc = "call"
  /\ builder \in {"first", "part1", "build_model"}
  /\ n_inputs \in InputSizes
  /\ n_layers \in IF builder = "build_model" THEN 0..MaxLayers ELSE {0}
  /\ hidden_size \in IF builder = "build_model" THEN HiddenSizes ELSE {0}
  /\ i_layer = 0
  /\ layersL = << >>
  /\ n_params = 0
  /\ GdIdle
  /\ FitIdle
  /\ PrepIdle
  /\ EvalIdle
  /\ FetchIdle
  /\ CnnIdle

NextBuild ==
  \/ FirstModel
  \/ Part1Sequential
  \/ BuildFirstLayer
  \/ AddHidden
  \/ AddOutput
  \/ CallCountParams

\* the construction of the models of the exercise notebook
SpecBuild == InitBuild /\ [][NextBuild]_vars

\* the preprocessing starts on a downloaded file
InitPrep ==
  /\ ppc = "read_csv"
  /\ csv \in Files(MaxRows)
  /\ data = << >>
  /\ columns = << >>
  /\ new_origin = NoFrame
  /\ X_cols = << >>
  /\ GdIdle
  /\ FitIdle
  /\ BuildIdle
  /\ EvalIdle
  /\ FetchIdle
  /\ CnnIdle

NextPrep ==
  \/ ReadData
  \/ DropMissing

\* reading the auto-MPG file and dropping its incomplete rows
SpecPrep == InitPrep /\ [][NextPrep]_vars

\* the preprocessing starts on a downloaded file whose lines differ in MPG,
\* Weight and Origin
InitEncode ==
  /\ ppc = "read_csv"
  /\ csv \in OriginFiles(MaxRows)
  /\ data = << >>
  /\ columns = << >>
  /\ new_origin = NoFrame
  /\ X_cols = << >>
  /\ GdIdle
  /\ FitIdle
  /\ BuildIdle
  /\ EvalIdle
  /\ FetchIdle
  /\ CnnIdle

NextEncode ==
  \/ ReadData
  \/ DropMissing
  \/ OneHot
  \/ ConcatOrigin
  \/ DropOrigin
  \/ SelectCols
  \/ Normalize

\* the preprocessing cells of the exercise notebook, from read_csv on
SpecEncode == InitEncode /\ [][NextEncode]_vars

-----------------------------------------------------------------------------
(* Properties of the three-way split *)

Done == gpc = "done"

InSet(d, i) == iD[d][i]

\* C1: when get_data returns, every cell is in exactly one of iD['trn'],
\* iD['val'] and iD['tst'] (the masks are pairwise disjoint and cover the
\* cells).
C1_Partition ==
  Done =>
    \A i \in 1..ncell :
      \/ InSet("trn", i) /\ ~InSet("val", i) /\ ~InSet("tst", i)
      \/ ~InSet("trn", i) /\ InSet("val", i) /\ ~InSet("tst", i)
      \/ ~InSet("trn", i) /\ ~InSet("val", i) /\ InSet("tst", i)

\* C2: when get_data returns, a cell is in the test set if and only if it
\* belongs to batch 3, and no batch-3 cell is in train or validation.
C2_TestIsBatch3 ==
  Done =>
    \A i \in 1..ncell :
      /\ InSet("tst", i) <=> batchV[i] = 3
      /\ batchV[i] = 3 => ~InSet("trn", i) /\ ~InSet("val", i)

SecondRunDone == Done /\ runs >= 2

\* C3 as stated: two executions of get_data on the same cells return the same
\* train, validation and test sets, whatever the random draws.
C3_SameSplit == SecondRunDone => iD = prevID

\* C3 as amended: two executions of get_data on the same cells return the same
\* test set and validation sets of the same size, whatever the random draws
\* (which cells are in validation and in train depends on the draws).
C3_SameTestSet ==
  SecondRunDone =>
    /\ iD.tst = prevID.tst
    /\ CountTrue(iD.val) = CountTrue(prevID.val)

\* two executions on the same file chose different validation cells
C3_Witness ==
  /\ SecondRunDone
  /\ iD.val # prevID.val
  /\ iD.trn # prevID.trn

-----------------------------------------------------------------------------
(* Properties of the sample weights *)

\* the bin np.histogram counted training cell i in
OwnBin(i) == HistBin(y["trn"], y["trn"][i])

\* C9: when get_data returns, the weight of every training cell is
\* (mean of the bin densities) / (density of its own histogram bin), is finite
\* and positive, and a cell in a less populated bin weighs at least as much
\* as a cell in a more populated bin.
C9_InverseDensity ==
  Done =>
    /\ \A i \in DOMAIN weights :
         /\ weights[i] = InvHist(y["trn"])[OwnBin(i)]
         /\ IsFinite(weights[i])
         /\ weights[i].num > 0
    /\ \A i, j \in DOMAIN weights :
         HistCount(y["trn"], OwnBin(i)) < HistCount(y["trn"], OwnBin(j))
           => IsFinite(weights[i]) /\ IsFinite(weights[j])
              /\ RatLeq(weights[j], weights[i])

-----------------------------------------------------------------------------
(* Properties of the fits with the early-stopping callback *)

\* the fit with the callback has returned
MonitoredFitReturned ==
  fpc \in {"assert_epochs", "score2", "assert_score", "done", "AssertionError"}

\* C4: the fit of the exercise notebook with the early-stopping callback
\* (patience 25, epochs 256) returns after fewer than 256 epochs, whatever the
\* validation losses.
C4_StopsBeforeMax ==
  (nb = "exercise" /\ MonitoredFitReturned) => epochs_run < 256

\* C5: once both scores are computed, the held-out error of the early-stopped
\* model is lower than that of the model trained for the full budget.
C5_EarlyStopScoresLower ==
  (overfit_score > 0 /\ earlystop_score > 0) => earlystop_score < overfit_score

\* the patience the claim names per notebook
ClaimedPatience == IF nb = "exercise" THEN 25 ELSE 50

\* C6: a fit with the early-stopping callback stops before the maximum epoch
\* count only if the validation loss has not improved on its best value for
\* P consecutive epochs (P = 25 in the exercise notebook, 50 in the CNN
\* notebook); while fewer than P epochs have passed since the last
\* improvement, training is not stopped, and it ends at the maximum epoch
\* count.
C6_StopsOnlyAfterPatience ==
  /\ (fpc = "fit2" /\ monitored.stale < ClaimedPatience)
       => ~model.stop_training
  /\ MonitoredFitReturned =>
       /\ epochs_run < Epochs(CurFit) => monitored.stale >= ClaimedPatience
       /\ monitored.stale < ClaimedPatience => epochs_run = Epochs(CurFit)

\* a fit of the exercise notebook that improved for a while and was then
\* stopped before the maximum epoch count
C6_Witness ==
  /\ nb = "exercise"
  /\ MonitoredFitReturned
  /\ epochs_run < Epochs(CurFit)
  /\ monitored.argmin > 1
  /\ monitored.stale = 25

-----------------------------------------------------------------------------
(* Properties of the parameter count *)

\* the closed form for n inputs, L hidden layers of h units and one output
ClosedForm(nI, L, h) == (nI + 1) * h + (L - 1) * (h + 1) * h + (h + 1)

\* C8: the parameter count of the model build_model(L, h) returns for L >= 1
\* equals (n_in+1)*h + (L-1)*(h+1)*h + (h+1); with 9 inputs the model with two
\* hidden layers of 64 has 4865 parameters and the model with three hidden
\* layers of 128 has 34433, however it is constructed.
C8_ParamCount ==
  bpc = "counted" =>
    /\ (builder = "build_model" /\ n_layers >= 1)
         => n_params = ClosedForm(n_inputs, n_layers, hidden_size)
    /\ (builder = "build_model" /\ n_inputs = 9 /\ n_layers = 2
          /\ hidden_size = 64) => n_params = 4865
    /\ (builder = "build_model" /\ n_inputs = 9 /\ n_layers = 3
          /\ hidden_size = 128) => n_params = 34433
    /\ (builder = "first" /\ n_inputs = 9) => n_params = 4865
    /\ (builder = "part1" /\ n_inputs = 9) => n_params = 34433

\* build_model(3, 128) on 9 inputs has been counted
C8_Witness ==
  /\ bpc = "counted"
  /\ builder = "build_model"
  /\ n_inputs = 9
  /\ n_layers = 3
  /\ hidden_size = 128
  /\ Len(layersL) = 4
  /\ n_params = 34433

-----------------------------------------------------------------------------
(* Properties of the missing-value step *)

\* line r of the file (labelled r - 1) has a field that reads as missing
LineHasNa(r) == \E c \in DOMAIN column_names : csv[r][c] \in NaTokens

\* the labels of the rows of the table
Labels10 == {data[k].index : k \in DOMAIN data}

\* C10: after data.dropna(inplace=True), every row read from a line with a
\* missing field is gone, every row read from a line without one is present
\* with the values read from that line, the rows are in file order, and no
\* row of the table holds a missing value.
C10_DropNa ==
  ppc = "dropped" =>
    /\ \A r \in DOMAIN csv : LineHasNa(r) <=> (r - 1) \notin Labels10
    /\ \A k \in DOMAIN data :
         /\ data[k].index + 1 \in DOMAIN csv
         /\ \A c \in DOMAIN column_names :
              /\ data[k].row[column_names[c]] # NaN
              /\ csv[data[k].index + 1][c] \in NumTokens
              /\ data[k].row[column_names[c]]
                   = IF csv[data[k].index + 1][c] = "1" THEN 1 ELSE 2
    /\ \A j, k \in DOMAIN data : j < k => data[j].index < data[k].index

\* a file whose middle line had one missing field lost that row and kept the
\* two complete rows around it
C10_Witness ==
  /\ ppc = "dropped"
  /\ Len(csv) = 3
  /\ LineHasNa(2)
  /\ ~LineHasNa(1)
  /\ ~LineHasNa(3)
  /\ csv[1] # csv[3]
  /\ Len(data) = 2
  /\ data[2].index = 2

-----------------------------------------------------------------------------
(* Further properties of the three-way split *)

\* C18: when get_data returns, every cell in iD['trn'] or iD['val'] has batch
\* number 1 or 2.
C18_TrnValFromBatch12 ==
  Done =>
    \A c \in 1..ncell :
      (InSet("trn", c) \/ InSet("val", c)) => batchV[c] \in {1, 2}

\* C20: when get_data returns, the validation set has exactly
\* floor(0.2 * (number of non-test cells)) cells, none of them a test cell,
\* and the training set has the remaining non-test cells; with fewer than 5
\* non-test cells the validation set is empty.
C20_ValSize ==
  Done =>
    /\ CountTrue(iD.val) = (ncell - CountTrue(iD.tst)) \div 5
    /\ \A c \in 1..ncell : InSet("val", c) => ~InSet("tst", c)
    /\ CountTrue(iD.trn)
         = (ncell - CountTrue(iD.tst)) - (ncell - CountTrue(iD.tst)) \div 5
    /\ (ncell - CountTrue(iD.tst) < 5) => CountTrue(iD.val) = 0

-----------------------------------------------------------------------------
(* Properties of the model the early-stopping fit starts from *)

\* C19: in the exercise notebook the early-stopping fit runs on a model other
\* than the one Part 1 trained, and starts from the initial weights and the
\* initial optimizer state of a newly built and compiled model; from the
\* construction of the callback to the return of that fit, overfit_score does
\* not change.
C19_FreshModel ==
  /\ [](nb = "exercise" =>
          /\ fpc \in {"fit1", "score1"} => model.id = 1
          /\ fpc = "fit2" =>
               /\ model.id = 2
               /\ model.iterations = epochs_run
               /\ epochs_run = 0 => model.weights = InitialWeights)
  /\ [][(nb = "exercise" /\ fpc \in {"callback", "fit2"})
          => overfit_score' = overfit_score]_vars

\* the early-stopping fit is about to train its first epoch, after Part 1 has
\* trained its model for 1024 epochs and scored it
C19_Witness ==
  /\ nb = "exercise"
  /\ fpc = "fit2"
  /\ epochs_run = 0
  /\ overfit_score > 0
  /\ model.id = 2
  /\ model.weights = InitialWeights

-----------------------------------------------------------------------------
(* Properties of the one-hot encoding *)

\* the Origin value read from the line the k-th row of data comes from
OriginOf(k) == ParseField(csv[data[k].index + 1][8])

\* the Origin values of the rows of data
OriginValues == {OriginOf(k) : k \in DOMAIN data}

\* C11: once Origin is encoded and X_cols is set, data has no Origin column,
\* it has exactly one column Origin_<v> per distinct Origin value v next to
\* the other seven columns, in every row the indicator of the row's own
\* Origin value is 1 and every other indicator is 0, and X_cols holds every
\* column except MPG: 9 columns when there are three Origin values.
C11_OneHot ==
  ppc = "normalize" =>
    /\ ~("Origin" \in Range(columns))
    /\ Range(columns)
         = (Columns \ {"Origin"}) \cup {DummyName(v) : v \in OriginValues}
    /\ Len(columns) = 7 + Cardinality(OriginValues)
    /\ \A k \in DOMAIN data :
         /\ DOMAIN data[k].row = Range(columns)
         /\ \A v \in OriginValues :
              data[k].row[DummyName(v)] = IF v = OriginOf(k) THEN 1 ELSE 0
    /\ Range(X_cols) = Range(columns) \ {"MPG"}
    /\ Len(X_cols) = Len(columns) - 1
    /\ Cardinality(OriginValues) = 3 => Len(X_cols) = 9

\* a file with the three Origin values has been encoded into 9 input columns
C11_Witness ==
  /\ ppc = "normalize"
  /\ Cardinality(OriginValues) = 3
  /\ Len(X_cols) = 9
  /\ X_cols[9] = "Origin_3"
  /\ data[1].row["Origin_1"] + data[1].row["Origin_2"]
       + data[1].row["Origin_3"] = 1

-----------------------------------------------------------------------------
(* Properties of the normalization *)

\* the value row k of data had in column c before the normalization, from
\* the line it was read from
Before(k, c) ==
  IF c \in Columns
  THEN ParseField(csv[data[k].index + 1][CHOOSE j \in DOMAIN column_names :
                                           column_names[j] = c])
  ELSE IF c = DummyName(OriginOf(k)) THEN 1 ELSE 0

\* column c had at least two different values before the normalization
Varies(c) == \E j, k \in DOMAIN data : Before(j, c) # Before(k, c)

\* the values of column c are numbers (not NaN) on one common scale
Numbers(c) ==
  \A k \in DOMAIN data :
    /\ IsFinite(data[k].row[c].scale2)
    /\ data[k].row[c].scale2 = data[1].row[c].scale2

\* the values of column c add up to 0
MeanZero(c) ==
  SumTo([k \in DOMAIN data |-> data[k].row[c].dev], Len(data)) = 0

\* the sum of the squares of the values of column c is n - 1: with a mean of
\* 0 that is a sample standard deviation of 1
StdOne(c) ==
  LET ss == SumTo([k \in DOMAIN data |->
                     data[k].row[c].dev * data[k].row[c].dev], Len(data))
      s2 == data[1].row[c].scale2
  IN  Rat(ss * s2.num, s2.den) = Rat(Len(data) - 1, 1)

\* MPG holds what was read from the file
TargetUnchanged ==
  \A k \in DOMAIN data : data[k].row["MPG"] = Before(k, "MPG")

\* C12 as stated: after the normalization every column of X_cols has mean 0
\* and standard deviation 1 over the table, and MPG is unchanged.
C12_ZeroMeanUnitStd ==
  ppc = "ready" =>
    /\ \A c \in Range(X_cols) : Numbers(c) /\ MeanZero(c) /\ StdOne(c)
    /\ TargetUnchanged

\* C12 as amended: after the normalization every column of X_cols that held
\* at least two different values has mean 0 and sample standard deviation 1
\* over the table, every column of X_cols whose values were all equal (and
\* every column of a table of one row) holds only NaN, and MPG is unchanged.
C12_NormalizedIfVaries ==
  ppc = "ready" =>
    /\ \A c \in Range(X_cols) :
         IF Varies(c)
         THEN Numbers(c) /\ MeanZero(c) /\ StdOne(c)
         ELSE \A k \in DOMAIN data : ~IsFinite(data[k].row[c].scale2)
    /\ TargetUnchanged

\* a table of three rows has been normalized: Weight and two Origin
\* indicators varied, the other columns did not, and MPG differs by row
C12_Witness ==
  /\ ppc = "ready"
  /\ Len(data) = 3
  /\ Varies("Weight")
  /\ Cardinality(OriginValues) = 2
  /\ \A v \in OriginValues : Varies(DummyName(v))
  /\ ~Varies("Cylinders")
  /\ Varies("MPG")
  /\ \E k \in DOMAIN data : data[k].row["Weight"].dev # 0

-----------------------------------------------------------------------------
(* Properties of the log transform and its inverse *)

\* the cycle lives get_data read for the cells of set d
ReadCycles(d) == MaskSelect(cycfailV, iD[d])

\* C13: 10**log10(c) = c for the cycle lives c of the model; for every set
\* the parity plot and the error metrics have handled, the cycle lives they
\* use are the ones get_data read; with logy the labels are the log10 of
\* those values, and without logy they are the labels themselves.
C13_LogInverse ==
  /\ \A c \in CycValues : Pow10(Log10(c)) = c
  /\ \A d \in DOMAIN yT :
       /\ yT[d] = ReadCycles(d)
       /\ logy => \A k \in DOMAIN yT[d] : y[d][k] = Log10(yT[d][k])
       /\ ~logy => yT[d] = y[d]
  /\ \A d \in DOMAIN yM :
       /\ yM[d] = ReadCycles(d)
       /\ logy => \A k \in DOMAIN yM[d] : y[d][k] = Log10(yM[d][k])
       /\ ~logy => yM[d] = y[d]

\* with logy, the parity plot and the error metrics have handled a training
\* set of cells with three different cycle lives
C13_Witness ==
  /\ logy
  /\ "trn" \in DOMAIN yT
  /\ "trn" \in DOMAIN yM
  /\ {yM["trn"][k] : k \in DOMAIN yM["trn"]} = CycValues
  /\ yT["trn"] = yM["trn"]
  /\ yT["trn"] # y["trn"]

-----------------------------------------------------------------------------
(* Properties of the data loaders *)

\* C14 as stated: no loader fetches a file that it already has locally.
C14_FetchOnlyOnce == refetch = {}

\* C14 as amended: get_file issues no fetch once auto-mpg.data is in the
\* cache; every call of get_data issues one fetch, also when fname is
\* there from an earlier call, so that from its second call on get_data has
\* fetched a file it had locally.
C14_GetDataAlwaysFetches ==
  /\ [](/\ ~(gpc \in {"idle", "fetch"}) => fetches.get_data = runs
        /\ (runs >= 2 /\ ~(gpc \in {"idle", "fetch"}))
             => "get_data" \in refetch)
  /\ [][cached => fetches'.get_file = fetches.get_file]_vars

\* get_data has returned for the second time, after two fetches
C14_Witness ==
  /\ gpc = "done"
  /\ runs = 2
  /\ fetches.get_data = 2
  /\ local = remote
  /\ "get_data" \in refetch

\* C15: when the fetch of a call of get_data fails, that call has issued
\* exactly one fetch, get_data is left by the error, and none of its later
\* steps has run: no file is opened, and there are no batches, labels,
\* masks or weights to return.
C15_FetchFailureAborts ==
  (gpc # "idle" /\ failed) =>
    /\ gpc = "URLError"
    /\ attempts = 1
    /\ cells = << >>
    /\ batchV = << >>
    /\ cycfailV = << >>
    /\ iD = NoMasks
    /\ weights = << >>
  /\ Xin = NoArray
  /\ X = [d \in dsetL |-> NoArray]
  /\ nfeat = 0
    /\ \A d \in dsetL : y[d] = << >> /\ n[d] = 0

\* the fetch of the second call of get_data has failed, with the file of the
\* first call still in place
C15_Witness ==
  /\ gpc = "URLError"
  /\ failed
  /\ runs = 2
  /\ local # << >>
  /\ fetches.get_data = 2

-----------------------------------------------------------------------------
(* Properties of the CNN model *)

\* C16: the layers of the CNN model, from its input to its output, are the
\* 16-filter convolution, the 8-filter convolution, Flatten, Dense(16) and
\* Dense(1).
C16_TwoConvLayers ==
  cpc = "summary" =>
    cnn_layers = <<Conv2D(16), Conv2D(8), Flatten, DenseLayer(16),
                   DenseLayer(1)>>

-----------------------------------------------------------------------------
(* Properties of the feature grids *)

\* the evaluated cycles and the evaluated voltages of the file
RowsOfFile == Len(cells[1].VvC)

ColsOfFile == Len(cells[1].VvC[1])

\* get_data has filled X
GridsBuilt == gpc \in {"weights", "return", "done"}

\* C17: with R curve rows and V voltages, the feature grid of every cell has
\* R-1 rows and V columns, its entry [k][v] is VvC[k+1][v] - VvC[0][v], and
\* X[dset] has shape (n[dset], R-1, V, 1): 9 x 20 = 180 features per cell for
\* 10 evaluated cycles at 20 voltages.
C17_FeatureGrid ==
  GridsBuilt =>
    /\ \A c \in 1..ncell :
         /\ Len(Xin.data[c]) = RowsOfFile - 1
         /\ \A k \in 0..(RowsOfFile - 2) :
              /\ Len(Xin.data[c][k + 1]) = ColsOfFile
              /\ \A v \in 1..ColsOfFile :
                   Xin.data[c][k + 1][v]
                     = cells[c].VvC[k + 2][v] - cells[c].VvC[1][v]
    /\ \A d \in dsetL :
         /\ X[d].shape = <<n[d], RowsOfFile - 1, ColsOfFile, 1>>
         /\ Len(X[d].data) = n[d]
    /\ nfeat = (RowsOfFile - 1) * ColsOfFile
    /\ <<RowsOfFile, ColsOfFile>> = DatasetShape => nfeat = 180

\* get_data returned the grids of a file of 10 evaluated cycles at 20
\* voltages with a cell that fades
C17_Witness ==
  /\ gpc = "done"
  /\ <<RowsOfFile, ColsOfFile>> = DatasetShape
  /\ nfeat = 180
  /\ \E d \in dsetL : n[d] > 0 /\ X[d].data[1][9][20] # <<0>>

-----------------------------------------------------------------------------
(* Properties of the result of get_data as a whole *)

\* the cells a mask selects, in the order of the cell loop
PickedCells(mask) == MaskSelect([c \in 1..ncell |-> c], mask)

\* get_data has filled weights
WeightsBuilt == gpc \in {"return", "done"}

\* n[dset] is the number of true entries of iD[dset] and the number of rows
\* of X[dset] and of y[dset]
SizesAgree ==
  \A d \in dsetL :
    /\ n[d] = CountTrue(iD[d])
    /\ Len(X[d].data) = n[d]
    /\ Len(y[d]) = n[d]

\* the i-th row of X[dset] and the i-th entry of y[dset] come from the i-th
\* cell of the file that iD[dset] selects
SameCell ==
  \A d \in dsetL :
    \A r \in 1..Len(PickedCells(iD[d])) :
      LET c == cells[PickedCells(iD[d])[r]]
      IN  /\ r \in DOMAIN X[d].data
          /\ r \in DOMAIN y[d]
          /\ \A k \in 1..(Len(c.VvC) - 1) :
               \A v \in 1..Len(c.VvC[1]) :
                 X[d].data[r][k][v] = <<c.VvC[k + 1][v] - c.VvC[1][v]>>
          /\ y[d][r] = IF logy THEN Log10(c.cycfail) ELSE c.cycfail

\* weights has one entry per training cell, in the order of y['trn']: cells
\* with one label have one weight
WeightsPerTrainingCell ==
  /\ Len(weights) = n["trn"]
  /\ \A r, q \in DOMAIN weights :
       y["trn"][r] = y["trn"][q] => weights[r] = weights[q]

\* the three sets hold every cell once
SizesSum == n["trn"] + n["val"] + n["tst"] = ncell

\* C21: in the result of get_data, n[dset] is the number of true entries of
\* iD[dset] and of rows of X[dset] and y[dset], the i-th row of X[dset] and
\* the i-th entry of y[dset] come from the same cell, weights has one entry
\* per training cell in the order of y['trn'], and the sizes of the three
\* sets add up to the number of cells.
C21_Aligned ==
  gpc = "done" =>
    /\ SizesAgree
    /\ SameCell
    /\ WeightsPerTrainingCell
    /\ SizesSum

====
